---- MODULE Spec2Model ----
(***************************************************************************)
(* WhatsApp weather-alert bot: the webhook handler of src/ogindex.js       *)
(* (first definition, lines 1-288), its in-memory user directory and its   *)
(* scheduled sweeps.                                                        *)
(*                                                                          *)
(* A request handler is an async function: it runs without interruption    *)
(* up to its next await, where other handlers and the sweeps may run.      *)
(* Every action below is one such uninterrupted segment.                   *)
(***************************************************************************)
EXTENDS Integers, Sequences, FiniteSets, TLC

(***************************************************************************)
(* Bounds of the model.                                                    *)
(***************************************************************************)
\* requests that may be in flight (suspended at an await) at the same time
MaxReqs == 2
\* entries an activity log may hold before further 'log' messages are held back
MaxLog == 2
\* notifications one sweep may send before its further sends are held back
MaxNotes == 2

Users == {"u1", "u2"}
\* req.body.From missing or empty
NoSender == ""

(***************************************************************************)
(* Text.  A string is a sequence of one-character strings.                 *)
(***************************************************************************)
UpperChars == <<"A","B","C","D","E","F","G","H","I","J","K","L","M",
                "N","O","P","Q","R","S","T","U","V","W","X","Y","Z">>
LowerChars == <<"a","b","c","d","e","f","g","h","i","j","k","l","m",
                "n","o","p","q","r","s","t","u","v","w","x","y","z">>

IsSpace(c) == c = " "

ToLowerChar(c) ==
    IF \E i \in 1..Len(UpperChars) : UpperChars[i] = c
    THEN LowerChars[CHOOSE i \in 1..Len(UpperChars) : UpperChars[i] = c]
    ELSE c

\* String.prototype.toLowerCase
ToLowerCase(s) == [i \in 1..Len(s) |-> ToLowerChar(s[i])]

RECURSIVE TrimStart(_)
TrimStart(s) ==
    IF s # <<>> /\ IsSpace(Head(s)) THEN TrimStart(Tail(s)) ELSE s

RECURSIVE TrimEnd(_)
TrimEnd(s) ==
    IF s # <<>> /\ IsSpace(s[Len(s)]) THEN TrimEnd(SubSeq(s, 1, Len(s) - 1)) ELSE s

\* String.prototype.trim
Trim(s) == TrimEnd(TrimStart(s))

\* String.prototype.startsWith
StartsWith(s, p) == Len(s) >= Len(p) /\ SubSeq(s, 1, Len(p)) = p

\* String.prototype.slice(k)
Slice(s, k) == SubSeq(s, k + 1, Len(s))

\* String.prototype.replace(pat, "") with a string pattern: removes the first
\* occurrence of pat, if any
RemoveFirst(s, pat) ==
    LET Occ == {i \in 1..(Len(s) - Len(pat) + 1) : SubSeq(s, i, i + Len(pat) - 1) = pat}
    IN  IF Occ = {} THEN s
        ELSE LET i == CHOOSE j \in Occ : \A k \in Occ : j <= k
             IN  SubSeq(s, 1, i - 1) \o SubSeq(s, i + Len(pat), Len(s))

\* the literals of the dispatcher
W_status      == <<"s","t","a","t","u","s">>
W_slashstatus == <<"/">> \o W_status
W_mystatus    == <<"m","y"," ">> \o W_status
W_log         == <<"l","o","g">>
W_logsp       == W_log \o <<" ">>
W_view        == <<"v","i","e","w">>
W_clear       == <<"c","l","e","a","r">>
W_viewlog     == W_view \o <<" ">> \o W_log
W_clearlog    == W_clear \o <<" ">> \o W_log
W_subscribe   == <<"s","u","b","s","c","r","i","b","e">>
W_unsubscribe == <<"u","n">> \o W_subscribe
W_weather     == <<"w","e","a","t","h","e","r">>
W_help        == <<"h","e","l","p">>

(***************************************************************************)
(* Inbound message bodies (req.body.Body) the model feeds the webhook.     *)
(***************************************************************************)
\* city names and activity texts as users type them
Cities == { <<"M">>, <<"p">> }
Activities == { <<"A">>, W_view, W_clear }

SubscribeMsg(city) == W_subscribe \o <<" ">> \o city      \* "subscribe M"
LogMsg(text)       == W_logsp \o text                     \* "log A", "log view"
WeatherMsg(city)   == W_weather \o <<" ">> \o city        \* "weather p"
LogBlankMsg        == W_logsp \o <<" ">>                   \* "log" and blanks only
SubscribeBlankMsg  == W_subscribe \o <<" ">>               \* "subscribe" and a blank
UnsubscribeMsg     == <<" ","U","n">> \o W_subscribe       \* " Unsubscribe"

RawMsgs ==
    { <<"1">>, <<"2">>, <<"3">>, <<"4">>, <<"x">>,
      W_status, W_slashstatus, W_mystatus,
      LogBlankMsg, W_viewlog, W_clearlog,
      W_subscribe, SubscribeBlankMsg, UnsubscribeMsg,
      W_weather, WeatherMsg(<<"p">>), W_help }
    \cup { SubscribeMsg(c) : c \in Cities }
    \cup { LogMsg(t) : t \in Activities }

Langs == {"en", "hi", "mr"}

(***************************************************************************)
(* State.                                                                  *)
(*   subscribers      Set of phones, in insertion order                    *)
(*   userLocations    Map phone -> city, in insertion order                *)
(*   userPreferences  Map phone -> {language}                              *)
(*   userActivities   Map phone -> array of {activity, date}; the date of  *)
(*                    an entry (new Date().toISOString()) is only ever     *)
(*                    printed back and is left out of the entry            *)
(*   reqs             the webhook invocations in flight                    *)
(*   alertJob         the weather-alert sweep                              *)
(*   reminderJob      the daily reminder sweep                             *)
(*   appended         history: per sender, the activity texts of the 'log' *)
(*                    messages handled since the sender's last 'clear log' *)
(***************************************************************************)
VARIABLES subscribers, userLocations, userPreferences, userActivities, reqs,
          alertJob, reminderJob, appended

dir  == <<subscribers, userLocations, userPreferences, userActivities>>
jobs == <<alertJob, reminderJob>>
vars == <<subscribers, userLocations, userPreferences, userActivities, reqs,
          alertJob, reminderJob, appended>>

\* ---- Set (insertion ordered) ----
SetHas(s, x) == \E i \in 1..Len(s) : s[i] = x
SetAdd(s, x) == IF SetHas(s, x) THEN s ELSE Append(s, x)
SetDelete(s, x) == SelectSeq(s, LAMBDA y : y # x)

\* ---- Map (insertion ordered), an entry is <<key, value>> ----
MapHas(m, k) == \E i \in 1..Len(m) : m[i][1] = k
MapGet(m, k) == m[CHOOSE i \in 1..Len(m) : m[i][1] = k][2]
MapSet(m, k, v) ==
    IF MapHas(m, k)
    THEN [i \in 1..Len(m) |-> IF m[i][1] = k THEN <<k, v>> ELSE m[i]]
    ELSE Append(m, <<k, v>>)
MapDelete(m, k) == SelectSeq(m, LAMBDA e : e[1] # k)

\* position of x in an insertion-ordered Set, of key k in a Map; 0 when absent
SetPos(s, x) == IF SetHas(s, x) THEN CHOOSE i \in 1..Len(s) : s[i] = x ELSE 0
MapPos(m, k) == IF MapHas(m, k) THEN CHOOSE i \in 1..Len(m) : m[i][1] = k ELSE 0

\* A live iterator has visited the first idx entries.  Deleting the entry at
\* position pos (0: nothing deleted) leaves the iterator before the same next entry.
AfterDelete(idx, pos) == IF pos > 0 /\ pos <= idx THEN idx - 1 ELSE idx

\* userPreferences.get(phone)?.language || "en"
LanguageOf(prefs, phone) ==
    IF phone \in DOMAIN prefs THEN prefs[phone].language ELSE "en"

\* userActivities.get(from) || []
LogsOf(acts, phone) == IF phone \in DOMAIN acts THEN acts[phone] ELSE <<>>

\* a function with one key added or overwritten (Map.set on a keyed map)
Put(f, k, v) == (k :> v) @@ f
\* a function with one key removed (Map.delete)
Drop(f, k) == [x \in DOMAIN f \ {k} |-> f[x]]

(***************************************************************************)
(* Reply texts.  A text is a record: its kind and the values interpolated  *)
(* into the template.                                                      *)
(***************************************************************************)
Text(kind, args) == [kind |-> kind, args |-> args]

NoWeather ==
    [ok |-> FALSE, city |-> <<>>, temp |-> 0, description |-> "", alerts |-> <<>>, wind |-> 0]

\* A webhook invocation: where it is suspended (pc), its sender, the branch of the
\* dispatcher it took, the text it is about to send, the language read by
\* replyAndEnd, the city and result of its weather lookup, the messages it handed
\* to the messaging provider, and the HTTP status it answered with (0: not
\* answered yet).  The voice-enabled handler also keeps the message it still
\* has to dispatch (msg) and the calls its voice branch has started (stages).
IdleReq ==
    [pc |-> "idle", from |-> NoSender, branch |-> "none", text |-> Text("none", <<>>),
     lang |-> "en", city |-> <<>>, wx |-> NoWeather, sent |-> <<>>, status |-> 0,
     msg |-> <<>>, stages |-> <<>>]

(***************************************************************************)
(* Weather lookup.  A provider response is a failure or a report           *)
(* [temp, wind, main]; the description is the one the provider gives for   *)
(* the condition category.                                                 *)
(***************************************************************************)
Failure == [ok |-> FALSE]
Report(temp, wind, main) == [ok |-> TRUE, temp |-> temp, wind |-> wind, main |-> main]

HeatAbove == 35
ColdBelow == 5
WindAbove == 10

\* mutant: the heat threshold is met at 35 already
AlertsAtThreshold(rep) ==
    (IF rep.temp >= 35 THEN <<Text("heat_alert", <<rep.temp>>)>> ELSE <<>>)
    \o (IF rep.temp < 5 THEN <<Text("cold_alert", <<rep.temp>>)>> ELSE <<>>)
    \o (IF rep.wind > 10 THEN <<Text("wind_alert", <<rep.wind>>)>> ELSE <<>>)
    \o (IF rep.main = "Rain" THEN <<Text("rain_alert", <<rep.main>>)>> ELSE <<>>)
    \o (IF rep.main = "Thunderstorm" THEN <<Text("storm_alert", <<rep.main>>)>> ELSE <<>>)

Alerts(rep) ==
    (IF rep.temp > HeatAbove THEN <<Text("heat_alert", <<rep.temp>>)>> ELSE <<>>)
    \o (IF rep.temp < ColdBelow THEN <<Text("cold_alert", <<rep.temp>>)>> ELSE <<>>)
    \o (IF rep.wind > WindAbove THEN <<Text("wind_alert", <<rep.wind>>)>> ELSE <<>>)
    \o (IF rep.main = "Rain" THEN <<Text("rain_alert", <<rep.main>>)>> ELSE <<>>)
    \o (IF rep.main = "Thunderstorm" THEN <<Text("storm_alert", <<rep.main>>)>> ELSE <<>>)

\* getWeather: null (NoWeather, ok FALSE) when the provider fails
GetWeather(city, rep) ==
    IF rep.ok
    THEN [ok |-> TRUE, city |-> city, temp |-> rep.temp, description |-> rep.main,
          alerts |-> Alerts(rep), wind |-> rep.wind]
    ELSE NoWeather

\* the provider responses a request's lookup may get
Reports == { Failure, Report(30, 5, "Clear"), Report(40, 15, "Rain") }

(***************************************************************************)
(* The webhook handler, app.post("/webhook").                              *)
(***************************************************************************)
\* incomingRaw.toString().trim().toLowerCase()
Normalise(raw) == ToLowerCase(Trim(raw))

\* the handler hands a message to the messaging provider and is suspended
\* until the provider answers
SendWhatsAppMessage(rq, to, message) ==
    [rq EXCEPT !.pc = "send", !.text = message,
               !.sent = Append(rq.sent, <<to, message>>)]

\* mutant: a sender whose language is en is acknowledged without a reply
ReplyAndEndNoSend(rq, prefs, phone, text) ==
    IF LanguageOf(prefs, phone) # "en"
    THEN [rq EXCEPT !.pc = "translate", !.text = text, !.lang = LanguageOf(prefs, phone)]
    ELSE [rq EXCEPT !.pc = "done", !.text = text, !.status = 200]

\* replyAndEnd up to its first await: the language is read, then either the
\* translation or the send is started
ReplyAndEnd(rq, prefs, phone, text) ==
    LET userLang == LanguageOf(prefs, phone)
    IN  IF userLang # "en"
        THEN [rq EXCEPT !.pc = "translate", !.text = text, !.lang = userLang]
        ELSE SendWhatsAppMessage([rq EXCEPT !.lang = userLang], phone, text)

\* the branch the dispatcher takes for a normalised message
Branch(known, msg) ==
    IF ~known THEN "first"
    ELSE IF msg = W_status \/ msg = W_slashstatus \/ msg = W_mystatus THEN "status"
    ELSE IF msg = <<"1">> \/ msg = <<"2">> \/ msg = <<"3">> THEN "language"
    ELSE IF StartsWith(msg, W_logsp)
         THEN IF Len(Trim(Slice(msg, 4))) = 0 THEN "log_empty" ELSE "log"
    ELSE IF msg = W_viewlog THEN "view_log"
    ELSE IF msg = W_clearlog THEN "clear_log"
    ELSE IF StartsWith(msg, W_subscribe)
         THEN IF Trim(RemoveFirst(msg, W_subscribe)) = <<>>
              THEN "subscribe_usage" ELSE "subscribe"
    ELSE IF msg = W_unsubscribe THEN "unsubscribe"
    ELSE IF StartsWith(msg, W_weather) THEN "weather"
    ELSE "help"

\* mutant: the codes of Hindi and Marathi are exchanged
LanguageCodeSwapped(msg) ==
    IF msg = <<"1">> THEN "mr" ELSE IF msg = <<"2">> THEN "hi" ELSE "en"

LanguageCode(msg) ==
    IF msg = <<"1">> THEN "hi" ELSE IF msg = <<"2">> THEN "mr" ELSE "en"

LanguageName(msg) ==
    IF msg = <<"1">> THEN "Hindi" ELSE IF msg = <<"2">> THEN "Marathi" ELSE "English"

StatusText(from) ==
    Text("status",
         << IF MapHas(userLocations, from) THEN MapGet(userLocations, from)
                                           ELSE <<"Not subscribed">>,
            LanguageOf(userPreferences, from),
            IF SetHas(subscribers, from) THEN "Yes" ELSE "No" >>)

\* one line per entry, in the order of the array
ViewLogText(logs) ==
    IF Len(logs) = 0 THEN Text("no_activities", <<>>)
    ELSE Text("logged_activities", logs)

\* the dispatcher's parse of each inbound message of the model
NormTable == [raw \in RawMsgs |-> Normalise(raw)]
BranchTable == [raw \in RawMsgs |-> Branch(TRUE, NormTable[raw])]

Free(r) == reqs[r].pc \in {"idle", "done"}

\* mutant: the first-contact branch does not return after the welcome and the
\* default reply is sent too
FirstContactGoesOn(r, rq, from) ==
    /\ userPreferences' = Put(userPreferences, from, [language |-> "en"])
    /\ reqs' = [reqs EXCEPT ![r] =
          SendWhatsAppMessage(SendWhatsAppMessage(rq, from, Text("welcome", <<>>)),
                              from, Text("help", <<>>))]
    /\ UNCHANGED <<subscribers, userLocations, userActivities, jobs>>

\* mutant: the welcome is sent and no record is created
FirstContactNoRecord(r, rq, from) ==
    /\ reqs' = [reqs EXCEPT ![r] = SendWhatsAppMessage(rq, from, Text("welcome", <<>>))]
    /\ UNCHANGED <<dir, jobs>>

\* first contact: create the record, send the welcome, stop
FirstContact(r, rq, from) ==
    /\ userPreferences' = Put(userPreferences, from, [language |-> "en"])
    /\ reqs' = [reqs EXCEPT ![r] = SendWhatsAppMessage(rq, from, Text("welcome", <<>>))]
    /\ UNCHANGED <<subscribers, userLocations, userActivities, jobs>>

Status(r, rq, from) ==
    /\ reqs' = [reqs EXCEPT ![r] = ReplyAndEnd(rq, userPreferences, from, StatusText(from))]
    /\ UNCHANGED <<dir, jobs>>

Language(r, rq, from, msg) ==
    LET prefs == Put(userPreferences, from, [language |-> LanguageCode(msg)])
    IN  /\ userPreferences' = prefs
        /\ reqs' = [reqs EXCEPT ![r] =
              ReplyAndEnd(rq, prefs, from, Text("language_set", <<LanguageName(msg)>>))]
        /\ UNCHANGED <<subscribers, userLocations, userActivities, jobs>>

LogEmpty(r, rq, from) ==
    /\ reqs' = [reqs EXCEPT ![r] =
          ReplyAndEnd(rq, userPreferences, from, Text("provide_activity", <<>>))]
    /\ UNCHANGED <<dir, jobs>>

\* mutant: the new entry replaces the array instead of being pushed onto it
LogActivityReplaces(r, rq, from, msg) ==
    LET activity == Trim(Slice(msg, 4))
        logs     == LogsOf(userActivities, from)
    IN  /\ Len(logs) < MaxLog
        /\ userActivities' = Put(userActivities, from, <<[activity |-> activity]>>)
        /\ reqs' = [reqs EXCEPT ![r] =
              ReplyAndEnd(rq, userPreferences, from, Text("logged", <<activity>>))]
        /\ UNCHANGED <<subscribers, userLocations, userPreferences, jobs>>

LogActivity(r, rq, from, msg) ==
    LET activity == Trim(Slice(msg, 4))
        logs     == LogsOf(userActivities, from)
    IN  /\ Len(logs) < MaxLog
        /\ userActivities' = Put(userActivities, from, Append(logs, [activity |-> activity]))
        /\ reqs' = [reqs EXCEPT ![r] =
              ReplyAndEnd(rq, userPreferences, from, Text("logged", <<activity>>))]
        /\ UNCHANGED <<subscribers, userLocations, userPreferences, jobs>>

ViewLog(r, rq, from) ==
    /\ reqs' = [reqs EXCEPT ![r] =
          ReplyAndEnd(rq, userPreferences, from, ViewLogText(LogsOf(userActivities, from)))]
    /\ UNCHANGED <<dir, jobs>>

\* mutant: the log is confirmed cleared but not deleted
ClearLogKeeps(r, rq, from) ==
    /\ reqs' = [reqs EXCEPT ![r] =
          ReplyAndEnd(rq, userPreferences, from, Text("logs_cleared", <<>>))]
    /\ UNCHANGED <<dir, jobs>>

ClearLog(r, rq, from) ==
    /\ userActivities' = Drop(userActivities, from)
    /\ reqs' = [reqs EXCEPT ![r] =
          ReplyAndEnd(rq, userPreferences, from, Text("logs_cleared", <<>>))]
    /\ UNCHANGED <<subscribers, userLocations, userPreferences, jobs>>

SubscribeUsage(r, rq, from) ==
    /\ reqs' = [reqs EXCEPT ![r] =
          ReplyAndEnd(rq, userPreferences, from, Text("specify_city_subscribe", <<>>))]
    /\ UNCHANGED <<dir, jobs>>

\* mutant: the city of a sender who already has one is not overwritten
SubscribeKeepsCity(r, rq, from, msg) ==
    LET city == Trim(RemoveFirst(msg, W_subscribe))
    IN  /\ subscribers' = SetAdd(subscribers, from)
        /\ userLocations' = IF MapHas(userLocations, from) THEN userLocations
                             ELSE MapSet(userLocations, from, city)
        /\ reqs' = [reqs EXCEPT ![r] =
              ReplyAndEnd(rq, userPreferences, from, Text("subscribed", <<city>>))]
        /\ UNCHANGED <<userPreferences, userActivities, jobs>>

\* mutant: the city is stored but the sender is not added to the subscribers
SubscribeWithoutFlag(r, rq, from, msg) ==
    LET city == Trim(RemoveFirst(msg, W_subscribe))
    IN  /\ userLocations' = MapSet(userLocations, from, city)
        /\ reqs' = [reqs EXCEPT ![r] =
              ReplyAndEnd(rq, userPreferences, from, Text("subscribed", <<city>>))]
        /\ UNCHANGED <<subscribers, userPreferences, userActivities, jobs>>

Subscribe(r, rq, from, msg) ==
    LET city == Trim(RemoveFirst(msg, W_subscribe))
    IN  /\ subscribers' = SetAdd(subscribers, from)
        /\ userLocations' = MapSet(userLocations, from, city)
        /\ reqs' = [reqs EXCEPT ![r] =
              ReplyAndEnd(rq, userPreferences, from, Text("subscribed", <<city>>))]
        /\ UNCHANGED <<userPreferences, userActivities, jobs>>

\* mutant: the sender leaves the subscribers but the location is not deleted
UnsubscribeKeepsLocation(r, rq, from) ==
    /\ subscribers' = SetDelete(subscribers, from)
    /\ reminderJob' =
          [reminderJob EXCEPT !.idx = AfterDelete(@, SetPos(subscribers, from)),
                              !.stayed = @ \ {from}]
    /\ reqs' = [reqs EXCEPT ![r] =
          ReplyAndEnd(rq, userPreferences, from, Text("unsubscribed", <<>>))]
    /\ UNCHANGED <<userLocations, userPreferences, userActivities, alertJob>>

\* mutant: unsubscribing also deletes the sender's preference and log
UnsubscribeDropsRecord(r, rq, from) ==
    /\ subscribers' = SetDelete(subscribers, from)
    /\ userLocations' = MapDelete(userLocations, from)
    /\ userPreferences' = Drop(userPreferences, from)
    /\ userActivities' = Drop(userActivities, from)
    /\ reminderJob' =
          [reminderJob EXCEPT !.idx = AfterDelete(@, SetPos(subscribers, from)),
                              !.stayed = @ \ {from}]
    /\ alertJob' = [alertJob EXCEPT !.idx = AfterDelete(@, MapPos(userLocations, from)),
                                    !.stayed = @ \ {from}]
    /\ reqs' = [reqs EXCEPT ![r] =
          ReplyAndEnd(rq, userPreferences, from, Text("unsubscribed", <<>>))]

\* mutant: unsubscribe also deletes the preference record, not the log
UnsubscribeForgetsPreference(r, rq, from) ==
    /\ subscribers' = SetDelete(subscribers, from)
    /\ userLocations' = MapDelete(userLocations, from)
    /\ userPreferences' = Drop(userPreferences, from)
    /\ reminderJob' =
          [reminderJob EXCEPT !.idx = AfterDelete(@, SetPos(subscribers, from)),
                              !.stayed = @ \ {from}]
    /\ alertJob' = [alertJob EXCEPT !.idx = AfterDelete(@, MapPos(userLocations, from)),
                                    !.stayed = @ \ {from}]
    /\ reqs' = [reqs EXCEPT ![r] =
          ReplyAndEnd(rq, userPreferences, from, Text("unsubscribed", <<>>))]
    /\ UNCHANGED userActivities

\* mutant: the subscriber set and the location map are emptied
UnsubscribeClearsAll(r, rq, from) ==
    /\ subscribers' = <<>>
    /\ userLocations' = <<>>
    /\ reminderJob' = [reminderJob EXCEPT !.idx = 0, !.stayed = {}]
    /\ alertJob' = [alertJob EXCEPT !.idx = 0, !.stayed = {}]
    /\ reqs' = [reqs EXCEPT ![r] =
          ReplyAndEnd(rq, userPreferences, from, Text("unsubscribed", <<>>))]
    /\ UNCHANGED <<userPreferences, userActivities>>

\* the sweeps iterate the live Set and Map: a deletion moves their iterators
Unsubscribe(r, rq, from) ==
    /\ subscribers' = SetDelete(subscribers, from)
    /\ userLocations' = MapDelete(userLocations, from)
    /\ reminderJob' =
          [reminderJob EXCEPT !.idx = AfterDelete(@, SetPos(subscribers, from)),
                              !.stayed = @ \ {from}]
    /\ alertJob' = [alertJob EXCEPT !.idx = AfterDelete(@, MapPos(userLocations, from)),
                                    !.stayed = @ \ {from}]
    /\ reqs' = [reqs EXCEPT ![r] =
          ReplyAndEnd(rq, userPreferences, from, Text("unsubscribed", <<>>))]
    /\ UNCHANGED <<userPreferences, userActivities>>

\* incomingMsg.replace("weather", "").trim() || userLocations.get(from)
WeatherCity(from, msg) ==
    LET arg == Trim(RemoveFirst(msg, W_weather))
    IN  IF arg # <<>> THEN arg
        ELSE IF MapHas(userLocations, from) THEN MapGet(userLocations, from)
        ELSE <<>>

\* mutant: the city of a weather request is stored as the sender's location
WeatherStoresCity(r, rq, from, msg) ==
    LET city == WeatherCity(from, msg)
    IN  /\ reqs' = [reqs EXCEPT ![r] =
              IF city = <<>>
              THEN ReplyAndEnd(rq, userPreferences, from, Text("specify_city_weather", <<>>))
              ELSE [rq EXCEPT !.pc = "weather", !.city = city]]
        /\ userLocations' = IF city = <<>> THEN userLocations
                            ELSE MapSet(userLocations, from, city)
        /\ UNCHANGED <<subscribers, userPreferences, userActivities, jobs>>

\* weather: usage error without a city, else the lookup is started
Weather(r, rq, from, msg) ==
    LET city == WeatherCity(from, msg)
    IN  /\ reqs' = [reqs EXCEPT ![r] =
              IF city = <<>>
              THEN ReplyAndEnd(rq, userPreferences, from, Text("specify_city_weather", <<>>))
              ELSE [rq EXCEPT !.pc = "weather", !.city = city]]
        /\ UNCHANGED <<dir, jobs>>

Help(r, rq, from) ==
    /\ reqs' = [reqs EXCEPT ![r] = ReplyAndEnd(rq, userPreferences, from, Text("help", <<>>))]
    /\ UNCHANGED <<dir, jobs>>

MissingSender(r, rq) ==
    /\ reqs' = [reqs EXCEPT ![r] = [rq EXCEPT !.pc = "done", !.status = 400]]
    /\ UNCHANGED <<dir, jobs>>

\* One inbound message, from its arrival to the handler's first await.  The
\* invocation takes the lowest free slot.
Webhook(r, from, raw) ==
    /\ Free(r)
    /\ \A q \in 1..(r - 1) : ~Free(q)
    /\ LET msg == NormTable[raw]
           b   == IF from = NoSender THEN "missing_sender"
                  ELSE IF from \in DOMAIN userPreferences THEN BranchTable[raw]
                  ELSE Branch(FALSE, msg)
           rq  == [IdleReq EXCEPT !.from = from, !.branch = b]
       IN  CASE b = "missing_sender"  -> MissingSender(r, rq)
             [] b = "first"           -> FirstContact(r, rq, from)
             [] b = "status"          -> Status(r, rq, from)
             [] b = "language"        -> Language(r, rq, from, msg)
             [] b = "log_empty"       -> LogEmpty(r, rq, from)
             [] b = "log"             -> LogActivity(r, rq, from, msg)
             [] b = "view_log"        -> ViewLog(r, rq, from)
             [] b = "clear_log"       -> ClearLog(r, rq, from)
             [] b = "subscribe_usage" -> SubscribeUsage(r, rq, from)
             [] b = "subscribe"       -> Subscribe(r, rq, from, msg)
             [] b = "unsubscribe"     -> Unsubscribe(r, rq, from)
             [] b = "weather"         -> Weather(r, rq, from, msg)
             [] OTHER                 -> Help(r, rq, from)

\* mutant: the null result of getWeather is not tested
WeatherReturnsIgnoresFailure(r, rep) ==
    LET rq      == reqs[r]
        weather == GetWeather(rq.city, rep)
    IN  /\ rq.pc = "weather"
        /\ reqs' = [reqs EXCEPT ![r] =
              [rq EXCEPT !.pc = "advice", !.wx = weather,
                         !.lang = LanguageOf(userPreferences, rq.from)]]
        /\ UNCHANGED <<dir, jobs, appended>>

\* getWeather returns to the weather branch
WeatherReturns(r, rep) ==
    LET rq      == reqs[r]
        weather == GetWeather(rq.city, rep)
    IN  /\ rq.pc = "weather"
        /\ reqs' = [reqs EXCEPT ![r] =
              IF ~weather.ok
              THEN ReplyAndEnd(rq, userPreferences, rq.from, Text("weather_failed", <<>>))
              ELSE [rq EXCEPT !.pc = "advice", !.wx = weather,
                              !.lang = LanguageOf(userPreferences, rq.from)]]
        /\ UNCHANGED <<dir, jobs, appended>>

\* the weather section of the reply, with the alert lines when there are any
WeatherText(weather) ==
    Text("weather", <<weather.city, weather.temp, weather.description>>
                    \o (IF Len(weather.alerts) > 0 THEN <<weather.alerts>> ELSE <<>>))

\* mutant: a failure of the provider yields no advice at all
GetCropAdviceAINoFallback(langCode, outcome) ==
    IF outcome = "text" THEN <<Text("advice", <<langCode>>)>> ELSE <<>>

\* getCropAdviceAI: the provider's text (possibly empty), or the fixed sentence
\* when the provider fails
GetCropAdviceAI(langCode, outcome) ==
    IF outcome = "text" THEN <<Text("advice", <<langCode>>)>>
    ELSE IF outcome = "empty" THEN <<>>
    ELSE <<Text("advice_unavailable", <<>>)>>

AdviceOutcomes == {"text", "empty", "fail"}

\* mutant: a failure of the advisory provider is not caught; the handler
\* throws and the request is never answered
AdviceReturnsThrows(r, outcome) ==
    /\ reqs[r].pc = "advice"
    /\ reqs' = [reqs EXCEPT ![r] =
          IF outcome = "fail" THEN [reqs[r] EXCEPT !.pc = "failed"]
          ELSE ReplyAndEnd(reqs[r], userPreferences, reqs[r].from,
                           IF outcome = "text"
                           THEN Text("weather_tips", <<WeatherText(reqs[r].wx),
                                                       Text("advice", <<reqs[r].lang>>)>>)
                           ELSE WeatherText(reqs[r].wx))]
    /\ UNCHANGED <<dir, jobs, appended>>

\* getCropAdviceAI returns to the weather branch
AdviceReturns(r, outcome) ==
    LET rq       == reqs[r]
        aiAdvice == GetCropAdviceAI(rq.lang, outcome)
        response == IF Len(aiAdvice) > 0
                    THEN Text("weather_tips", <<WeatherText(rq.wx), aiAdvice[1]>>)
                    ELSE WeatherText(rq.wx)
    IN  /\ rq.pc = "advice"
        /\ reqs' = [reqs EXCEPT ![r] = ReplyAndEnd(rq, userPreferences, rq.from, response)]
        /\ UNCHANGED <<dir, jobs, appended>>

\* mutant: nothing catches a translation that throws; the request ends
\* without a reply
TranslateReturnsThrows(r, ok) ==
    /\ reqs[r].pc = "translate"
    /\ reqs' = [reqs EXCEPT ![r] =
          IF ok
          THEN [reqs[r] EXCEPT !.pc = "send",
                   !.text = Text("translated", <<reqs[r].lang, reqs[r].text>>),
                   !.sent = Append(@, <<reqs[r].from,
                                        Text("translated", <<reqs[r].lang, reqs[r].text>>)>>)]
          ELSE [reqs[r] EXCEPT !.pc = "done", !.status = 500]]
    /\ UNCHANGED <<dir, jobs, appended>>

\* translateText returns to replyAndEnd, with the translation or by throwing
TranslateReturns(r, ok) ==
    LET rq  == reqs[r]
        out == IF ok THEN Text("translated", <<rq.lang, rq.text>>) ELSE rq.text
    IN  /\ rq.pc = "translate"
        /\ reqs' = [reqs EXCEPT ![r] = SendWhatsAppMessage(rq, rq.from, out)]
        /\ UNCHANGED <<dir, jobs, appended>>

\* sendWhatsAppMessage returns, delivered or not (a failure is only logged);
\* the handler acknowledges the request
SendReturns(r, ok) ==
    LET rq == reqs[r]
    IN  /\ rq.pc = "send"
        /\ reqs' = [reqs EXCEPT ![r] = [rq EXCEPT !.pc = "done", !.status = 200]]
        /\ UNCHANGED <<dir, jobs, appended>>

(***************************************************************************)
(* The weather-alert sweep, cron.schedule(..., async () => {...}).         *)
(* A job record: where the sweep is suspended (pc), how many entries its   *)
(* iterator has visited (idx), the user it is at (phone, city, text) and   *)
(* the notifications it handed to the messaging provider since it started. *)
(* Beside these, the history of the sweep: the users its loop body was     *)
(* entered for (looked) and the users who were subscribers when it started *)
(* and have not unsubscribed since (stayed).                               *)
(***************************************************************************)
IdleJob ==
    [pc |-> "idle", idx |-> 0, phone |-> NoSender, city |-> <<>>,
     text |-> Text("none", <<>>), sent |-> <<>>, looked |-> {}, stayed |-> {}]

\* a sweep that starts now
StartJob == [IdleJob EXCEPT !.stayed = {subscribers[i] : i \in 1..Len(subscribers)}]

\* the first entry after the idx-th whose phone is subscribed; 0 when none
RECURSIVE NextSubscribed(_, _, _)
NextSubscribed(locs, subs, idx) ==
    IF idx >= Len(locs) THEN 0
    ELSE IF SetHas(subs, locs[idx + 1][1]) THEN idx + 1
    ELSE NextSubscribed(locs, subs, idx + 1)

\* the for-loop from its current position to its next await, or to its end
AlertLoop(job) ==
    LET i == NextSubscribed(userLocations, subscribers, job.idx)
    IN  IF i = 0
        THEN [job EXCEPT !.pc = "finished", !.idx = Len(userLocations),
                         !.phone = NoSender, !.city = <<>>]
        ELSE [job EXCEPT !.pc = "lookup", !.idx = i,
                         !.phone = userLocations[i][1], !.city = userLocations[i][2],
                         !.looked = @ \cup {userLocations[i][1]}]

\* the schedule fires; a sweep is not started while the previous one runs
AlertSweepStarts ==
    /\ alertJob.pc \in {"idle", "finished"}
    /\ alertJob' = AlertLoop(StartJob)
    /\ UNCHANGED <<dir, reqs, reminderJob, appended>>

\* mutant: a failed lookup ends the sweep
AlertWeatherReturnsStops(rep) ==
    LET weather == GetWeather(alertJob.city, rep)
    IN  /\ alertJob.pc = "lookup"
        /\ IF weather.ok /\ Len(weather.alerts) > 0
           THEN /\ Len(alertJob.sent) < MaxNotes
                /\ alertJob' =
                      [alertJob EXCEPT !.pc = "send",
                          !.sent = Append(@, <<alertJob.phone,
                                      Text("weather_alert", <<weather.city, weather.alerts>>)>>)]
           ELSE IF weather.ok THEN alertJob' = AlertLoop(alertJob)
           ELSE alertJob' = [alertJob EXCEPT !.pc = "finished"]
        /\ UNCHANGED <<dir, reqs, reminderJob, appended>>

\* mutant: every successful lookup is notified, with or without alerts
AlertWeatherReturnsAlways(rep) ==
    LET weather == GetWeather(alertJob.city, rep)
    IN  /\ alertJob.pc = "lookup"
        /\ IF weather.ok
           THEN /\ Len(alertJob.sent) < MaxNotes
                /\ alertJob' =
                      [alertJob EXCEPT !.pc = "send",
                          !.sent = Append(@, <<alertJob.phone,
                                      Text("weather_alert", <<weather.city, weather.alerts>>)>>)]
           ELSE alertJob' = AlertLoop(alertJob)
        /\ UNCHANGED <<dir, reqs, reminderJob, appended>>

\* getWeather returns to the sweep
AlertWeatherReturns(rep) ==
    LET weather == GetWeather(alertJob.city, rep)
    IN  /\ alertJob.pc = "lookup"
        /\ IF weather.ok /\ Len(weather.alerts) > 0
           THEN /\ Len(alertJob.sent) < MaxNotes
                /\ alertJob' =
                      [alertJob EXCEPT !.pc = "send",
                          !.sent = Append(@, <<alertJob.phone,
                                      Text("weather_alert", <<weather.city, weather.alerts>>)>>)]
           ELSE alertJob' = AlertLoop(alertJob)
        /\ UNCHANGED <<dir, reqs, reminderJob, appended>>

\* mutant: a failed send is thrown out of the sweep
AlertSendReturnsThrows(ok) ==
    /\ alertJob.pc = "send"
    /\ alertJob' = [alertJob EXCEPT !.pc = IF ok THEN "delay" ELSE "failed"]
    /\ UNCHANGED <<dir, reqs, reminderJob, appended>>

\* sendWhatsAppMessage returns to the sweep, delivered or not
AlertSendReturns(ok) ==
    /\ alertJob.pc = "send"
    /\ alertJob' = [alertJob EXCEPT !.pc = "delay"]
    /\ UNCHANGED <<dir, reqs, reminderJob, appended>>

\* the one-second delay ends
AlertDelayEnds ==
    /\ alertJob.pc = "delay"
    /\ alertJob' = AlertLoop(alertJob)
    /\ UNCHANGED <<dir, reqs, reminderJob, appended>>

(***************************************************************************)
(* The daily reminder sweep.                                               *)
(***************************************************************************)
\* sendActivityReminder up to its first await
SendActivityReminder(job, phone) ==
    LET lang    == LanguageOf(userPreferences, phone)
        message == Text("reminder", <<>>)
    IN  IF lang # "en"
        THEN [job EXCEPT !.pc = "translate", !.phone = phone, !.city = <<lang>>,
                         !.text = message]
        ELSE [job EXCEPT !.pc = "send", !.phone = phone, !.text = message,
                         !.sent = Append(@, <<phone, message>>)]

\* the for-loop over the Set, from its current position to its next await
ReminderLoop(job) ==
    IF job.idx >= Len(subscribers)
    THEN [job EXCEPT !.pc = "finished", !.phone = NoSender]
    ELSE SendActivityReminder([job EXCEPT !.idx = @ + 1,
                                          !.looked = @ \cup {subscribers[job.idx + 1]}],
                              subscribers[job.idx + 1])

ReminderSweepStarts ==
    /\ reminderJob.pc \in {"idle", "finished", "failed"}
    /\ reminderJob' = ReminderLoop(StartJob)
    /\ UNCHANGED <<dir, reqs, alertJob, appended>>

\* translateText returns to sendActivityReminder; when it throws, nothing
\* catches: the callback's promise is rejected and the sweep is over
ReminderTranslateReturns(ok) ==
    /\ reminderJob.pc = "translate"
    /\ reminderJob' =
          IF ok
          THEN LET message == Text("translated", <<reminderJob.city[1], reminderJob.text>>)
               IN  [reminderJob EXCEPT !.pc = "send", !.text = message,
                                       !.sent = Append(@, <<reminderJob.phone, message>>)]
          ELSE [reminderJob EXCEPT !.pc = "failed"]
    /\ UNCHANGED <<dir, reqs, alertJob, appended>>

ReminderSendReturns(ok) ==
    /\ reminderJob.pc = "send"
    /\ reminderJob' = [reminderJob EXCEPT !.pc = "delay"]
    /\ UNCHANGED <<dir, reqs, alertJob, appended>>

\* the one-second delay ends; a sweep that has sent MaxNotes reminders is
\* held back while users remain
ReminderDelayEnds ==
    /\ reminderJob.pc = "delay"
    /\ Len(reminderJob.sent) < MaxNotes \/ reminderJob.idx >= Len(subscribers)
    /\ reminderJob' = ReminderLoop(reminderJob)
    /\ UNCHANGED <<dir, reqs, alertJob, appended>>

(***************************************************************************)
(* The voice-enabled handler (src/unnamed/part_000) and its voice pipeline *)
(* (src/voicePipeline.js).  An audio message is fetched and passed through *)
(* speech-to-text, text generation and text-to-speech; every other message *)
(* goes to the handler's text dispatcher.                                  *)
(***************************************************************************)
Media == {"none", "audio", "image"}
VoiceApology == Text("voice_apology", <<>>)
AudioReply == Text("audio_reply", <<>>)

\* mutant: the catch of the voice branch acknowledges without an apology
VoiceCatchSilent(rq) == [rq EXCEPT !.pc = "done", !.status = 200]

\* the catch of the voice branch: the apology is sent, then 200
VoiceCatch(rq) == SendWhatsAppMessage(rq, rq.from, VoiceApology)

\* the text dispatcher, from the test of the message to its next await
TextDispatch(r, rq, from, msg) ==
    LET city  == Trim(RemoveFirst(msg, W_subscribe))
        wcity == WeatherCity(from, msg)
        reply(t) == reqs' = [reqs EXCEPT ![r] = SendWhatsAppMessage(rq, from, t)]
    IN  IF StartsWith(msg, W_subscribe)
        THEN IF city # <<>>
             THEN /\ subscribers' = SetAdd(subscribers, from)
                  /\ userLocations' = MapSet(userLocations, from, city)
                  /\ reply(Text("v_subscribed", <<city>>))
                  /\ UNCHANGED <<userActivities, jobs>>
             ELSE /\ reply(Text("v_specify_city", <<>>))
                  /\ UNCHANGED <<subscribers, userLocations, userActivities, jobs>>
        ELSE IF msg = W_unsubscribe
        THEN /\ subscribers' = SetDelete(subscribers, from)
             /\ userLocations' = MapDelete(userLocations, from)
             /\ reminderJob' =
                   [reminderJob EXCEPT !.idx = AfterDelete(@, SetPos(subscribers, from)),
                                       !.stayed = @ \ {from}]
             /\ alertJob' =
                   [alertJob EXCEPT !.idx = AfterDelete(@, MapPos(userLocations, from)),
                                    !.stayed = @ \ {from}]
             /\ reply(Text("v_unsubscribed", <<>>))
             /\ UNCHANGED userActivities
        ELSE IF StartsWith(msg, W_weather)
        THEN /\ IF wcity # <<>>
                THEN reqs' = [reqs EXCEPT ![r] = [rq EXCEPT !.pc = "v_weather", !.city = wcity]]
                ELSE reply(Text("v_specify_city_weather", <<>>))
             /\ UNCHANGED <<subscribers, userLocations, userActivities, jobs>>
        ELSE /\ reply(Text("v_commands", <<>>))
             /\ UNCHANGED <<subscribers, userLocations, userActivities, jobs>>

\* One inbound message to the voice-enabled handler, to its first await.
\* media: no media, an audio attachment, or an attachment of another type.
VoiceWebhook(r, from, raw, media) ==
    LET msg == Trim(ToLowerCase(raw))
        rq  == [IdleReq EXCEPT !.from = from, !.msg = msg]
    IN  /\ Free(r)
        /\ \A q \in 1..(r - 1) : ~Free(q)
        /\ IF media = "audio"
           THEN /\ reqs' = [reqs EXCEPT ![r] =
                      [rq EXCEPT !.pc = "fetch", !.branch = "voice", !.stages = <<"fetch">>]]
                /\ UNCHANGED <<dir, jobs>>
           ELSE IF from \notin DOMAIN userPreferences
           THEN /\ userPreferences' = Put(userPreferences, from, [language |-> "en"])
                /\ reqs' = [reqs EXCEPT ![r] =
                      [SendWhatsAppMessage([rq EXCEPT !.branch = "text"], from,
                                           Text("v_welcome", <<>>))
                         EXCEPT !.pc = "welcome"]]
                /\ UNCHANGED <<subscribers, userLocations, userActivities, jobs>>
           ELSE /\ TextDispatch(r, [rq EXCEPT !.branch = "text"], from, msg)
                /\ UNCHANGED userPreferences
        /\ UNCHANGED appended

\* the welcome has been sent, or not: the dispatch goes on
WelcomeSendReturns(r, ok) ==
    /\ reqs[r].pc = "welcome"
    /\ TextDispatch(r, reqs[r], reqs[r].from, reqs[r].msg)
    /\ UNCHANGED <<userPreferences, appended>>

\* getWeather returns to the text dispatcher
VoiceWeatherReturns(r, rep) ==
    LET rq      == reqs[r]
        weather == GetWeather(rq.city, rep)
    IN  /\ rq.pc = "v_weather"
        /\ reqs' = [reqs EXCEPT ![r] =
              IF weather.ok THEN [rq EXCEPT !.pc = "v_advice", !.wx = weather]
              ELSE SendWhatsAppMessage(rq, rq.from, Text("v_weather_failed", <<>>))]
        /\ UNCHANGED <<dir, jobs, appended>>

\* getCropAdviceAI returns to the text dispatcher
VoiceAdviceReturns(r, outcome) ==
    LET rq       == reqs[r]
        aiAdvice == IF outcome = "text" THEN <<Text("advice", <<>>)>>
                    ELSE IF outcome = "empty" THEN <<>>
                    ELSE <<Text("v_advice_unavailable", <<>>)>>
    IN  /\ rq.pc = "v_advice"
        /\ reqs' = [reqs EXCEPT ![r] =
              SendWhatsAppMessage(rq, rq.from,
                  Text("v_weather", <<WeatherText(rq.wx)>> \o aiAdvice))]
        /\ UNCHANGED <<dir, jobs, appended>>

\* axios.get(mediaUrl) returns or throws
MediaFetchReturns(r, ok) ==
    /\ reqs[r].pc = "fetch"
    /\ reqs' = [reqs EXCEPT ![r] =
          IF ok THEN [reqs[r] EXCEPT !.pc = "stt", !.stages = Append(@, "stt")]
          ELSE VoiceCatch(reqs[r])]
    /\ UNCHANGED <<dir, jobs, appended>>

\* transcribeAudio returns or throws; processVoiceRequest rethrows
TranscribeAudioReturns(r, ok) ==
    /\ reqs[r].pc = "stt"
    /\ reqs' = [reqs EXCEPT ![r] =
          IF ok THEN [reqs[r] EXCEPT !.pc = "gen", !.stages = Append(@, "gen")]
          ELSE VoiceCatch(reqs[r])]
    /\ UNCHANGED <<dir, jobs, appended>>

\* generateAIResponse returns or throws
GenerateAIResponseReturns(r, ok) ==
    /\ reqs[r].pc = "gen"
    /\ reqs' = [reqs EXCEPT ![r] =
          IF ok THEN [reqs[r] EXCEPT !.pc = "tts", !.stages = Append(@, "tts")]
          ELSE VoiceCatch(reqs[r])]
    /\ UNCHANGED <<dir, jobs, appended>>

\* synthesizeSpeech returns or throws; the audio is written to a file, which
\* may throw too; then the media message is handed to the messaging client
SynthesisOutcomes == {"ok", "fail", "write_fail"}

SynthesizeSpeechReturns(r, outcome) ==
    /\ reqs[r].pc = "tts"
    /\ reqs' = [reqs EXCEPT ![r] =
          IF outcome = "ok"
          THEN [reqs[r] EXCEPT !.pc = "media", !.stages = Append(@, "media"),
                               !.sent = Append(@, <<reqs[r].from, AudioReply>>)]
          ELSE VoiceCatch(reqs[r])]
    /\ UNCHANGED <<dir, jobs, appended>>

\* client.messages.create returns (200) or throws (the catch)
MediaSendReturns(r, ok) ==
    /\ reqs[r].pc = "media"
    /\ reqs' = [reqs EXCEPT ![r] =
          IF ok THEN [reqs[r] EXCEPT !.pc = "done", !.status = 200]
          ELSE VoiceCatch(reqs[r])]
    /\ UNCHANGED <<dir, jobs, appended>>

Init ==
    /\ subscribers = <<>>
    /\ userLocations = <<>>
    /\ userPreferences = [x \in {} |-> [language |-> "en"]]
    /\ userActivities = [x \in {} |-> <<>>]
    /\ reqs = [r \in 1..MaxReqs |-> IdleReq]
    /\ alertJob = IdleJob
    /\ reminderJob = IdleJob
    /\ appended = [u \in Users |-> <<>>]

\* the continuations of a suspended handler
Resume(r) ==
    \/ \E rep \in Reports : WeatherReturns(r, rep)
    \/ \E o \in AdviceOutcomes : AdviceReturns(r, o)
    \/ \E ok \in BOOLEAN : TranslateReturns(r, ok)
    \/ \E ok \in BOOLEAN : SendReturns(r, ok)

AlertSweep ==
    \/ AlertSweepStarts
    \/ \E rep \in Reports : AlertWeatherReturns(rep)
    \/ \E ok \in BOOLEAN : AlertSendReturns(ok)
    \/ AlertDelayEnds

(***************************************************************************)
(* History of the inbound messages, kept beside the program: what a sender *)
(* with a record asked to log since that sender last asked to clear.       *)
(***************************************************************************)
IsLogRequest(msg)   == StartsWith(msg, W_logsp) /\ Trim(Slice(msg, Len(W_logsp))) # <<>>
IsClearRequest(msg) == msg = W_clearlog

Observe(from, raw) ==
    LET msg == ToLowerCase(Trim(raw))
    IN  appended' =
          IF from \in DOMAIN userPreferences /\ IsLogRequest(msg)
          THEN [appended EXCEPT ![from] = Append(@, Trim(Slice(msg, Len(W_logsp))))]
          ELSE IF from \in DOMAIN userPreferences /\ IsClearRequest(msg)
          THEN [appended EXCEPT ![from] = <<>>]
          ELSE appended

\* an inbound message: the handler up to its first await, and the history
Receive(r, from, raw) == Webhook(r, from, raw) /\ Observe(from, raw)

(***************************************************************************)
(* Spec: the dispatcher with every command, one sender, its messages       *)
(* handled one at a time.                                                  *)
(***************************************************************************)
Next ==
    \/ \E from \in {"u1", NoSender}, raw \in RawMsgs : Receive(1, from, raw)
    \/ Resume(1)

Spec == Init /\ [][Next]_vars

\* every external call of a suspended handler eventually returns or fails
SpecLive == Spec /\ WF_vars(Resume(1))

(***************************************************************************)
(* SpecSub: the subscription commands of two senders, their handlers       *)
(* interleaved at the awaits with each other and with the alert sweep.     *)
(***************************************************************************)
SubMsgs == { SubscribeMsg(<<"M">>), UnsubscribeMsg }

NextSub ==
    \/ \E r \in 1..MaxReqs, from \in Users, raw \in SubMsgs : Receive(r, from, raw)
    \/ \E r \in 1..MaxReqs, ok \in BOOLEAN : SendReturns(r, ok)
    \/ AlertSweep

SpecSub == Init /\ [][NextSub]_vars

(***************************************************************************)
(* SpecSweep: two senders subscribe and unsubscribe, and the alert sweep   *)
(* runs with no inbound message arriving between its start and its end.    *)
(***************************************************************************)
SweepMsgs == { SubscribeMsg(<<"M">>), SubscribeMsg(<<"p">>), UnsubscribeMsg }

ReceiveBetweenSweeps(from, raw) ==
    /\ alertJob.pc \in {"idle", "finished"}
    /\ Receive(1, from, raw)

NextSweep ==
    \/ \E from \in Users, raw \in SweepMsgs : ReceiveBetweenSweeps(from, raw)
    \/ \E ok \in BOOLEAN : SendReturns(1, ok)
    \/ AlertSweep

SpecSweep == Init /\ [][NextSweep]_vars

(***************************************************************************)
(* SpecSweepLive: as SpecSweep, with inbound messages handled at any       *)
(* moment of the sweep, and every awaited call of a running sweep          *)
(* eventually returning or failing.                                       *)
(***************************************************************************)
AlertResume ==
    \/ \E rep \in Reports : AlertWeatherReturns(rep)
    \/ \E ok \in BOOLEAN : AlertSendReturns(ok)
    \/ AlertDelayEnds

NextSweepLive ==
    \/ \E from \in Users, raw \in SweepMsgs : Receive(1, from, raw)
    \/ \E ok \in BOOLEAN : SendReturns(1, ok)
    \/ AlertSweepStarts
    \/ AlertResume

SpecSweepLive == Init /\ [][NextSweepLive]_vars /\ WF_vars(AlertResume)

(***************************************************************************)
(* SpecRem: two senders choose Hindi, subscribe and unsubscribe while the  *)
(* daily reminder sweep runs.                                              *)
(***************************************************************************)
RemMsgs == { <<"1">>, SubscribeMsg(<<"M">>), UnsubscribeMsg }

ReminderSweep ==
    \/ ReminderSweepStarts
    \/ \E ok \in BOOLEAN : ReminderTranslateReturns(ok)
    \/ \E ok \in BOOLEAN : ReminderSendReturns(ok)
    \/ ReminderDelayEnds

NextRem ==
    \/ \E from \in Users, raw \in RemMsgs : Receive(1, from, raw)
    \/ \E ok \in BOOLEAN : TranslateReturns(1, ok)
    \/ \E ok \in BOOLEAN : SendReturns(1, ok)
    \/ ReminderSweep

SpecRem == Init /\ [][NextRem]_vars

(***************************************************************************)
(* SpecVoice: the voice-enabled handler, one sender, messages with and     *)
(* without an audio attachment, handled one at a time.                     *)
(***************************************************************************)
VoiceMsgs == { <<>>, SubscribeMsg(<<"M">>), UnsubscribeMsg, W_weather, W_help }

NextVoice ==
    \/ \E raw \in VoiceMsgs, media \in Media : VoiceWebhook(1, "u1", raw, media)
    \/ \E ok \in BOOLEAN : WelcomeSendReturns(1, ok)
    \/ \E rep \in Reports : VoiceWeatherReturns(1, rep)
    \/ \E o \in AdviceOutcomes : VoiceAdviceReturns(1, o)
    \/ \E ok \in BOOLEAN : MediaFetchReturns(1, ok)
    \/ \E ok \in BOOLEAN : TranscribeAudioReturns(1, ok)
    \/ \E ok \in BOOLEAN : GenerateAIResponseReturns(1, ok)
    \/ \E o \in SynthesisOutcomes : SynthesizeSpeechReturns(1, o)
    \/ \E ok \in BOOLEAN : MediaSendReturns(1, ok)
    \/ \E ok \in BOOLEAN : SendReturns(1, ok)

SpecVoice == Init /\ [][NextVoice]_vars

(***************************************************************************)
(* SpecTwo: two senders whose requests are interleaved at the awaits and   *)
(* with an alert sweep whose lookups report alert weather; u1 chooses      *)
(* Hindi, subscribes and unsubscribes, u2 logs, subscribes and asks for    *)
(* its status.                                                             *)
(***************************************************************************)
TwoMsgs(u) ==
    IF u = "u1"
    THEN { <<"1">>, SubscribeMsg(<<"M">>), UnsubscribeMsg }
    ELSE { LogMsg(<<"A">>), SubscribeMsg(<<"p">>), W_status }

NextTwo ==
    \/ \E r \in 1..MaxReqs, from \in Users : \E raw \in TwoMsgs(from) : Receive(r, from, raw)
    \/ \E r \in 1..MaxReqs, ok \in BOOLEAN : TranslateReturns(r, ok)
    \/ \E r \in 1..MaxReqs, ok \in BOOLEAN : SendReturns(r, ok)
    \/ AlertSweepStarts
    \/ AlertWeatherReturns(Report(40, 15, "Rain"))
    \/ AlertSendReturns(TRUE)
    \/ AlertDelayEnds

SpecTwo == Init /\ [][NextTwo]_vars

(***************************************************************************)
(* SpecWx: the weather command of one sender, the provider's answer        *)
(* ranging over temperatures, wind speeds and condition categories around  *)
(* the thresholds of getWeather.                                           *)
(***************************************************************************)
WxTemps == {4, 5, 6, 34, 35, 36, 40}
WxWinds == {9, 10, 11, 15}
WxMains == {"Clear", "Rain", "Thunderstorm"}
WxReports ==
    {Failure} \cup {Report(t, w, m) : t \in WxTemps, w \in WxWinds, m \in WxMains}

NextWx ==
    \/ Receive(1, "u1", WeatherMsg(<<"p">>))
    \/ \E rep \in WxReports : WeatherReturns(1, rep)
    \/ \E o \in AdviceOutcomes : AdviceReturns(1, o)
    \/ \E ok \in BOOLEAN : SendReturns(1, ok)

SpecWx == Init /\ [][NextWx]_vars

(***************************************************************************)
(* Properties.                                                             *)
(***************************************************************************)
Known(u)       == u \in DOMAIN userPreferences
Subscribed(u)  == SetHas(subscribers, u)
HasLocation(u) == MapHas(userLocations, u)
Logs(u)        == LogsOf(userActivities, u)
Welcome        == Text("welcome", <<>>)

\* the text a reply was composed as, before any translation
Original(t) == IF t.kind = "translated" THEN t.args[2] ELSE t

\* C1: for a sender without a record, handling any message sends exactly one
\* message, the welcome, creates the record with language en, and leaves the
\* sender not subscribed, without location and with an empty log; the command
\* carried by the message is not executed.
C1_FirstContactOnlyWelcomes ==
    [][ /\ \A from \in Users, raw \in RawMsgs :
              (~Known(from) /\ Receive(1, from, raw))
              => /\ reqs'[1].branch = "first"
                 /\ reqs'[1].sent = << <<from, Welcome>> >>
                 /\ userPreferences' = Put(userPreferences, from, [language |-> "en"])
                 /\ ~Subscribed(from)' /\ ~HasLocation(from)' /\ Logs(from)' = <<>>
                 /\ subscribers' = subscribers /\ userLocations' = userLocations
                 /\ userActivities' = userActivities
        /\ \A r \in 1..MaxReqs :
              reqs'[r].branch = "first"
              => /\ reqs'[r].sent = << <<reqs'[r].from, Welcome>> >>
                 /\ reqs'[r].pc \in {"send", "done"} ]_vars

\* a first message has been answered with the welcome alone and the sender,
\* now known, is neither subscribed nor has a location or a log
C1_Witness ==
    /\ reqs[1].branch = "first" /\ reqs[1].pc = "done" /\ reqs[1].status = 200
    /\ reqs[1].sent = << <<"u1", Welcome>> >>
    /\ userPreferences["u1"].language = "en"
    /\ ~Subscribed("u1") /\ ~HasLocation("u1") /\ Logs("u1") = <<>>

\* C2: in every reachable state, under every interleaving of handlers and the
\* alert sweep, a user is among the subscribers if and only if a location is
\* stored for that user, and a stored location is never empty.
C2_SubscribedIffLocation ==
    \A u \in Users :
        /\ Subscribed(u) <=> HasLocation(u)
        /\ HasLocation(u) => MapGet(userLocations, u) # <<>>

\* u1 is subscribed and u2, known, is not, while u1's subscribe and u2's
\* unsubscribe are both suspended at their send and the sweep at a lookup
C2_Witness ==
    /\ Subscribed("u1") /\ HasLocation("u1")
    /\ Known("u2") /\ ~Subscribed("u2") /\ ~HasLocation("u2")
    /\ reqs[1].pc = "send" /\ reqs[1].from = "u1" /\ reqs[1].branch = "subscribe"
    /\ reqs[2].pc = "send" /\ reqs[2].from = "u2" /\ reqs[2].branch = "unsubscribe"
    /\ alertJob.pc = "lookup"

\* C3 as stated: for a known user 'subscribe <city>' ends with the user
\* subscribed and the stored location equal to <city>, and 'subscribe' with an
\* empty argument changes neither the flag nor the location.
C3_LocationIsCityAsSent ==
    [][ \A from \in Users :
          /\ \A c \in Cities :
                (Known(from) /\ Receive(1, from, SubscribeMsg(c)))
                => /\ Subscribed(from)' /\ HasLocation(from)'
                   /\ MapGet(userLocations', from) = c
          /\ \A raw \in {W_subscribe, SubscribeBlankMsg} :
                (Known(from) /\ Receive(1, from, raw))
                => subscribers' = subscribers /\ userLocations' = userLocations ]_vars

\* C3 amended: the stored location is <city> in lower case, whatever city was
\* stored before; the empty argument changes neither the flag nor the location.
C3_LocationIsCityLowerCased ==
    [][ \A from \in Users :
          /\ \A c \in Cities :
                (Known(from) /\ Receive(1, from, SubscribeMsg(c)))
                => /\ Subscribed(from)' /\ HasLocation(from)'
                   /\ MapGet(userLocations', from) = ToLowerCase(c)
                   /\ reqs'[1].branch = "subscribe"
          /\ \A raw \in {W_subscribe, SubscribeBlankMsg} :
                (Known(from) /\ Receive(1, from, raw))
                => /\ subscribers' = subscribers /\ userLocations' = userLocations
                   /\ reqs'[1].branch = "subscribe_usage" ]_vars

\* 'subscribe M' of a known sender has been confirmed for the city m, which is
\* the sender's stored location
C3_Witness ==
    /\ reqs[1].branch = "subscribe" /\ reqs[1].pc = "done" /\ reqs[1].from = "u1"
    /\ Original(reqs[1].sent[1][2]) = Text("subscribed", << <<"m">> >>)
    /\ Subscribed("u1") /\ MapGet(userLocations, "u1") = <<"m">>

\* C4: for a known user 'unsubscribe' ends with the user not subscribed and
\* without location, and an 'unsubscribe' handled in such a state leaves the
\* whole directory as it is (so two in a row end as one does).
C4_UnsubscribeIdempotent ==
    [][ \A from \in Users :
          (Known(from) /\ Receive(1, from, UnsubscribeMsg))
          => /\ reqs'[1].branch = "unsubscribe"
             /\ ~Subscribed(from)' /\ ~HasLocation(from)'
             /\ (~Subscribed(from) /\ ~HasLocation(from)) => dir' = dir ]_vars

\* an 'unsubscribe' has been answered and the sender has neither flag nor location
C4_Witness ==
    /\ reqs[1].branch = "unsubscribe" /\ reqs[1].pc = "done" /\ reqs[1].from = "u1"
    /\ Original(reqs[1].sent[1][2]) = Text("unsubscribed", <<>>)
    /\ Known("u1") /\ ~Subscribed("u1") /\ ~HasLocation("u1")

\* C5: no step removes a user's record, and 'unsubscribe' leaves every language
\* preference and every activity log unchanged.
C5_RecordKept ==
    [][ /\ DOMAIN userPreferences \subseteq DOMAIN userPreferences'
        /\ \A from \in Users :
              (Known(from) /\ Receive(1, from, UnsubscribeMsg))
              => /\ userPreferences' = userPreferences
                 /\ userActivities' = userActivities ]_vars

\* an 'unsubscribe' has been answered for a sender whose language is Hindi and
\* whose log holds two entries
C5_Witness ==
    /\ reqs[1].branch = "unsubscribe" /\ reqs[1].pc = "done" /\ reqs[1].from = "u1"
    /\ Known("u1") /\ userPreferences["u1"].language = "hi"
    /\ Len(Logs("u1")) = 2 /\ ~Subscribed("u1")

LanguageMsgs == { <<"1">>, <<"2">>, <<"3">> }

\* C6: for a known user '1', '2', '3' set the language to hi, mr, en whatever
\* it was; a step that changes a known user's language is the handling of one
\* of these three messages from that user (every other message, and every
\* later step of a handler, leaves it unchanged); a stored language is always
\* one of en, hi, mr.
C6_LanguageSelection ==
    [][ /\ \A from \in Users :
              Known(from)
              => /\ \A raw \in LanguageMsgs :
                        Receive(1, from, raw)
                        => userPreferences' =
                              [userPreferences EXCEPT ![from].language =
                                  IF raw = <<"1">> THEN "hi"
                                  ELSE IF raw = <<"2">> THEN "mr" ELSE "en"]
                 /\ userPreferences'[from] # userPreferences[from]
                        => \E raw \in LanguageMsgs : Receive(1, from, raw)
        /\ \A u \in DOMAIN userPreferences' : userPreferences'[u].language \in Langs ]_vars

\* '2' has been answered, in Marathi, and Marathi is the sender's language
C6_Witness ==
    /\ reqs[1].branch = "language" /\ reqs[1].pc = "done" /\ reqs[1].from = "u1"
    /\ reqs[1].sent = << <<"u1", Text("translated", <<"mr", Text("language_set", <<"Marathi">>)>>)>> >>
    /\ userPreferences["u1"].language = "mr"

\* C7 as stated: for a known user 'log <text>' appends exactly one entry
\* holding <text> and leaves the earlier entries and their order unchanged.
C7_EntryIsTextAsSent ==
    [][ \A from \in Users, t \in Activities :
          (Known(from) /\ Receive(1, from, LogMsg(t)))
          => Logs(from)' = Append(Logs(from), [activity |-> t]) ]_vars

\* C7 amended: the appended entry holds <text> in lower case.
C7_EntryIsTextLowerCased ==
    [][ \A from \in Users, t \in Activities :
          (Known(from) /\ Receive(1, from, LogMsg(t)))
          => /\ Logs(from)' = Append(Logs(from), [activity |-> ToLowerCase(t)])
             /\ reqs'[1].branch = "log" ]_vars

\* 'log A' has been confirmed for the activity a, the second entry of a log
\* whose first entry is unchanged
C7_Witness ==
    /\ reqs[1].branch = "log" /\ reqs[1].from = "u1"
    /\ Original(reqs[1].text) = Text("logged", << <<"a">> >>)
    /\ Logs("u1") = << [activity |-> W_view], [activity |-> <<"a">>] >>

ActivityTexts(logs) == [i \in 1..Len(logs) |-> logs[i].activity]

\* C8: a user's log holds exactly the texts logged since the user's last
\* 'clear log', in that order; 'view log' replies with exactly these entries, or
\* with the nothing-logged text when there are none; 'clear log' leaves the
\* log empty.  (One message is handled at a time: a reply is compared with the
\* history as it is when the reply is composed.)
C8_ViewAndClearLog ==
    /\ \A u \in Users : ActivityTexts(Logs(u)) = appended[u]
    /\ reqs[1].branch = "view_log"
          => Original(reqs[1].text) =
                IF appended[reqs[1].from] = <<>> THEN Text("no_activities", <<>>)
                ELSE Text("logged_activities",
                          [i \in 1..Len(appended[reqs[1].from]) |->
                              [activity |-> appended[reqs[1].from][i]]])
    /\ reqs[1].branch = "clear_log"
          => Logs(reqs[1].from) = <<>> /\ reqs[1].from \notin DOMAIN userActivities

\* 'view log' is being answered with the two entries logged, in their order
C8_Witness ==
    /\ reqs[1].branch = "view_log" /\ reqs[1].from = "u1"
    /\ appended["u1"] = << <<"a">>, W_clear >>
    /\ Original(reqs[1].text) =
          Text("logged_activities", << [activity |-> <<"a">>], [activity |-> W_clear] >>)

\* C9 as stated: 'log' followed only by blanks is answered with the request
\* for an activity and appends nothing.
C9_BlankLogIsRejected ==
    [][ \A from \in Users :
          (Known(from) /\ Receive(1, from, LogBlankMsg))
          => /\ Original(reqs'[1].text).kind = "provide_activity"
             /\ userActivities' = userActivities ]_vars

\* C10 as stated: 'log view' leaves the sender's log unchanged and 'log clear'
\* leaves it empty.
C10_HelpLogCommandsDoNotAppend ==
    [][ \A from \in Users :
          /\ (Known(from) /\ Receive(1, from, LogMsg(W_view)))
                => Logs(from)' = Logs(from)
          /\ (Known(from) /\ Receive(1, from, LogMsg(W_clear)))
                => Logs(from)' = <<>> ]_vars

AlertOrder == <<"heat_alert", "cold_alert", "wind_alert", "rain_alert", "storm_alert">>
AlertKinds(alerts) == [i \in 1..Len(alerts) |-> alerts[i].kind]

\* the alerts due for a result of getWeather, stated from the result alone
DueAlert(wx, kind) ==
    \/ kind = "heat_alert"  /\ wx.temp > 35
    \/ kind = "cold_alert"  /\ wx.temp < 5
    \/ kind = "wind_alert"  /\ wx.wind > 10
    \/ kind = "rain_alert"  /\ wx.description = "Rain"
    \/ kind = "storm_alert" /\ wx.description = "Thunderstorm"

\* C11: the alert list of every successful lookup is exactly the subsequence
\* of heat, cold, wind, rain, storm with heat iff temperature > 35, cold iff
\* temperature < 5, wind iff wind speed > 10, rain iff the category is Rain,
\* storm iff it is Thunderstorm, in that order.
C11_AlertList ==
    \A r \in 1..MaxReqs :
        reqs[r].wx.ok
        => AlertKinds(reqs[r].wx.alerts)
              = SelectSeq(AlertOrder, LAMBDA k : DueAlert(reqs[r].wx, k))

\* a lookup returned 40 degrees, wind 15 and Rain: heat, wind, rain
C11_Witness ==
    /\ reqs[1].wx.ok /\ reqs[1].wx.temp = 40 /\ reqs[1].wx.wind = 15
    /\ reqs[1].wx.description = "Rain"
    /\ AlertKinds(reqs[1].wx.alerts) = <<"heat_alert", "wind_alert", "rain_alert">>

WeatherFailed == Text("weather_failed", <<>>)

\* C12: when the provider fails for a weather command, the reply composed is
\* the fixed could-not-fetch text and the directory is unchanged; the request
\* then sends that text once, to its sender, and never waits for the advisory
\* provider, which is only ever called with a successful lookup.
C12_WeatherFailure ==
    [][ /\ WeatherReturns(1, Failure)
              => /\ reqs'[1].text = WeatherFailed
                 /\ reqs'[1].pc \in {"translate", "send"}
                 /\ reqs'[1].sent = IF reqs'[1].pc = "send"
                                    THEN << <<reqs[1].from, WeatherFailed>> >> ELSE <<>>
                 /\ dir' = dir
        /\ reqs'[1].pc = "advice" => reqs'[1].wx.ok
        /\ Original(reqs[1].text) = WeatherFailed
              => /\ reqs[1].pc \in {"translate", "send", "done"}
                 /\ reqs[1].pc \in {"translate", "send"}
                       => /\ reqs'[1].pc \in {"send", "done"}
                          /\ Len(reqs'[1].sent) = 1
                          /\ reqs'[1].sent[1][1] = reqs[1].from
                          /\ Original(reqs'[1].sent[1][2]) = WeatherFailed
                          /\ ~reqs'[1].wx.ok
                          /\ dir' = dir ]_vars

\* a subscribed sender's weather command ended with the could-not-fetch text
\* as its only message, acknowledged
C12_Witness ==
    /\ reqs[1].branch = "weather" /\ reqs[1].pc = "done" /\ reqs[1].status = 200
    /\ reqs[1].sent = << <<"u1", WeatherFailed>> >>
    /\ ~reqs[1].wx.ok /\ Subscribed("u1")

AdviceUnavailable == Text("advice_unavailable", <<>>)

\* a reply made of a weather section and a tips section holding the fallback
IsFallbackReply(t) ==
    /\ t.kind = "weather_tips"
    /\ t.args[1].kind = "weather"
    /\ t.args[2] = AdviceUnavailable

\* C13: when the advisory provider fails after a successful lookup, the reply
\* composed is the weather section (city, temperature, conditions, and the
\* alert lines exactly when there are alerts) followed by the tips section
\* holding the fixed fallback sentence; the request goes on to its send, and
\* when it ends it has sent that reply once and answered 200.
C13_AdviceFailure ==
    [][ /\ AdviceReturns(1, "fail")
              => LET w == reqs[1].wx
                     t == reqs'[1].text
                 IN  /\ w.ok
                     /\ IsFallbackReply(t)
                     /\ t.args[1].args =
                           IF w.alerts # <<>>
                           THEN <<w.city, w.temp, w.description, w.alerts>>
                           ELSE <<w.city, w.temp, w.description>>
                     /\ reqs'[1].pc \in {"translate", "send"}
        /\ (IsFallbackReply(Original(reqs'[1].text)) /\ reqs'[1].pc = "done")
              => /\ reqs'[1].status = 200
                 /\ Len(reqs'[1].sent) = 1
                 /\ reqs'[1].sent[1][1] = reqs'[1].from
                 /\ Original(reqs'[1].sent[1][2]) = Original(reqs'[1].text) ]_vars

\* a weather command with alerts ended, acknowledged, with the weather section,
\* its alert lines and the fallback sentence as its only message
C13_Witness ==
    /\ reqs[1].branch = "weather" /\ reqs[1].pc = "done" /\ reqs[1].status = 200
    /\ reqs[1].sent =
          << <<"u1", Text("weather_tips",
                          <<Text("weather", <<<<"p">>, 40, "Rain",
                                              <<Text("heat_alert", <<40>>),
                                                Text("wind_alert", <<15>>),
                                                Text("rain_alert", <<"Rain">>)>> >>),
                            AdviceUnavailable>>)>> >>

InFlight(r) == reqs[r].pc \notin {"idle", "done"}

\* C14: when the translation fails for a sender whose language is not en, the
\* composed reply is handed to the messaging provider untranslated, and the
\* request is then acknowledged with 200; the translator is only ever called
\* for a sender whose stored language is not en.
C14_TranslationFallback ==
    [][ /\ TranslateReturns(1, FALSE)
              => /\ reqs[1].lang # "en"
                 /\ reqs'[1].pc = "send"
                 /\ reqs'[1].sent = << <<reqs[1].from, reqs[1].text>> >>
                 /\ reqs[1].text.kind # "translated"
        /\ reqs'[1].pc = "translate"
              => /\ reqs'[1].lang # "en"
                 /\ userPreferences'[reqs'[1].from].language = reqs'[1].lang
        /\ (reqs[1].pc = "send" /\ reqs'[1] # reqs[1])
              => /\ reqs'[1].pc = "done" /\ reqs'[1].status = 200
                 /\ reqs'[1].sent = reqs[1].sent ]_vars

\* the status command of a sender whose language is Hindi was answered
\* untranslated and acknowledged
C14_Witness ==
    /\ reqs[1].branch = "status" /\ reqs[1].lang = "hi"
    /\ reqs[1].pc = "done" /\ reqs[1].status = 200
    /\ Len(reqs[1].sent) = 1 /\ reqs[1].sent[1][2].kind = "status"

\* C15: a request with a sender identifier hands at most one message to the
\* messaging provider, addressed to its sender, and has not answered while it
\* is suspended; when it is done it has handed over exactly one and answered
\* once, with 200 -- on every branch of the dispatcher.
C15_OneReplyOneAck ==
    \A r \in 1..MaxReqs :
        reqs[r].from # NoSender
        => /\ \A i \in 1..Len(reqs[r].sent) : reqs[r].sent[i][1] = reqs[r].from
           /\ InFlight(r)
                 => /\ reqs[r].status = 0
                    /\ Len(reqs[r].sent) = IF reqs[r].pc = "send" THEN 1 ELSE 0
           /\ reqs[r].pc = "done"
                 => /\ reqs[r].status = 200
                    /\ Len(reqs[r].sent) = 1
           /\ reqs[r].branch \in
                 {"first", "status", "language", "log", "view_log", "clear_log",
                  "subscribe_usage", "subscribe", "unsubscribe", "weather", "help"}

\* a weather command answered in Marathi: one message, one acknowledgement
C15_Witness ==
    /\ reqs[1].branch = "weather" /\ reqs[1].from = "u1" /\ reqs[1].lang = "mr"
    /\ reqs[1].pc = "done" /\ reqs[1].status = 200
    /\ Len(reqs[1].sent) = 1 /\ reqs[1].sent[1][1] = "u1"
    /\ reqs[1].sent[1][2].kind = "translated"
    /\ Original(reqs[1].sent[1][2]).kind = "weather_tips"

\* C16: provided each external call eventually returns or fails, a request
\* with a sender identifier that is suspended is eventually done and answered
\* with 200; the return of the messaging call, delivered or not, is followed
\* by the same acknowledgement.
C16_EventuallyAcknowledged ==
    /\ (InFlight(1) /\ reqs[1].from # NoSender)
          ~> (reqs[1].pc = "done" /\ reqs[1].status = 200)
    /\ [][ \A ok \in BOOLEAN :
              SendReturns(1, ok) => reqs'[1].pc = "done" /\ reqs'[1].status = 200 ]_vars

\* a weather command whose lookup and translation both failed was acknowledged
C16_Witness ==
    /\ reqs[1].branch = "weather" /\ reqs[1].lang = "hi"
    /\ reqs[1].pc = "done" /\ reqs[1].status = 200
    /\ reqs[1].sent = << <<"u1", WeatherFailed>> >>

SubscribedUsers == {u \in Users : Subscribed(u)}
Running(job) == job.pc \notin {"idle", "finished", "failed"}

\* C17: in an alert sweep with no inbound message in between, each lookup is
\* for a subscribed user and that user's stored city, and hands over a
\* notification for that user, carrying exactly the alert lines of the lookup,
\* if and only if the lookup succeeds with at least one alert; nothing else
\* hands over a notification; no user is looked up twice, and when the sweep
\* ends the users looked up are exactly the subscribed ones.
C17_AlertIffAlerts ==
    [][ /\ \A rep \in Reports :
              AlertWeatherReturns(rep)
              => LET u == alertJob.phone
                 IN  /\ Subscribed(u)
                     /\ MapGet(userLocations, u) = alertJob.city
                     /\ alertJob'.sent =
                           IF rep.ok /\ Alerts(rep) # <<>>
                           THEN Append(alertJob.sent,
                                       <<u, Text("weather_alert", <<alertJob.city, Alerts(rep)>>)>>)
                           ELSE alertJob.sent
        /\ alertJob'.sent # alertJob.sent
              => AlertSweepStarts \/ \E rep \in Reports : AlertWeatherReturns(rep)
        /\ (alertJob'.pc = "lookup" /\ alertJob' # alertJob)
              => alertJob'.phone \notin (IF Running(alertJob) THEN alertJob.looked ELSE {})
        /\ (Running(alertJob) /\ alertJob'.pc = "finished")
              => /\ alertJob'.looked = SubscribedUsers
                 /\ \A i \in 1..Len(alertJob'.sent) : Subscribed(alertJob'.sent[i][1]) ]_vars

\* a sweep over two subscribed users ended: u1's lookup failed or had no
\* alerts, u2's had three, and u2 alone was notified, with these three
C17_Witness ==
    /\ alertJob.pc = "finished" /\ alertJob.looked = {"u1", "u2"}
    /\ Subscribed("u1") /\ Subscribed("u2")
    /\ alertJob.sent =
          << <<"u2", Text("weather_alert",
                          <<MapGet(userLocations, "u2"), Alerts(Report(40, 15, "Rain"))>>)>> >>

\* C18: a failed lookup and a failed send do not end the alert sweep: after
\* either the loop goes on as after a success, the sweep is never left
\* failed, a lookup with alerts hands over its notification, and when the
\* sweep ends every user who was subscribed from its start to its end has
\* been looked up -- with handlers of inbound messages interleaved.
C18_AlertSweepGoesOn ==
    [][ /\ AlertWeatherReturns(Failure)
              => /\ alertJob'.pc \in {"lookup", "finished"}
                 /\ alertJob'.pc = "lookup" => alertJob'.idx > alertJob.idx
        /\ AlertSendReturns(FALSE) => alertJob'.pc = "delay"
        /\ AlertDelayEnds => alertJob'.pc \in {"lookup", "finished"}
        /\ \A rep \in Reports :
              (rep.ok /\ Alerts(rep) # <<>> /\ AlertWeatherReturns(rep))
              => /\ alertJob'.pc = "send"
                 /\ alertJob'.sent[Len(alertJob'.sent)] =
                       <<alertJob.phone, Text("weather_alert", <<alertJob.city, Alerts(rep)>>)>>
        /\ alertJob'.pc # "failed"
        /\ alertJob'.pc = "finished" => alertJob'.stayed \subseteq alertJob'.looked ]_vars

\* a sweep ended after looking up both users: u1 unsubscribed while it ran,
\* u2 stayed and was notified
C18_Witness ==
    /\ alertJob.pc = "finished" /\ alertJob.looked = {"u1", "u2"}
    /\ alertJob.stayed = {"u2"} /\ ~Subscribed("u1") /\ Subscribed("u2")
    /\ Len(alertJob.sent) = 1 /\ alertJob.sent[1][1] = "u2"

\* C19 as stated: when the reminder sweep is over, every user who was
\* subscribed from its start to its end has had the loop body entered for
\* them (their reminder prepared), whatever failed for the users before.
C19_ReminderSweepGoesOn ==
    reminderJob.pc \in {"finished", "failed"}
    => reminderJob.stayed \subseteq reminderJob.looked

StageOrder == <<"fetch", "stt", "gen", "tts", "media">>
VoiceStageFails ==
    \/ MediaFetchReturns(1, FALSE)
    \/ TranscribeAudioReturns(1, FALSE)
    \/ GenerateAIResponseReturns(1, FALSE)
    \/ SynthesizeSpeechReturns(1, "fail")

\* C20: in the voice-enabled handler a message with an audio attachment takes
\* the voice branch whatever its text, and no step of that request changes the
\* directory or enters the text dispatcher; the calls of the voice branch are
\* started in their order; when the media fetch or a pipeline stage fails, no
\* further stage is started, the apology is the one message handed over, to
\* the sender, and the request then ends with 200.
C20_VoiceFailure ==
    [][ /\ \A raw \in VoiceMsgs :
              VoiceWebhook(1, "u1", raw, "audio")
              => reqs'[1].branch = "voice" /\ reqs'[1].pc = "fetch" /\ dir' = dir
        /\ (reqs[1].branch = "voice" /\ InFlight(1))
              => /\ dir' = dir
                 /\ reqs'[1].branch = "voice"
                 /\ reqs'[1].pc \in {"fetch", "stt", "gen", "tts", "media", "send", "done"}
                 /\ reqs'[1].stages = SubSeq(StageOrder, 1, Len(reqs'[1].stages))
        /\ VoiceStageFails
              => /\ reqs'[1].pc = "send"
                 /\ reqs'[1].stages = reqs[1].stages
                 /\ reqs'[1].sent = << <<reqs[1].from, VoiceApology>> >>
        /\ (reqs[1].branch = "voice" /\ reqs[1].pc = "send")
              => /\ reqs[1].stages = reqs'[1].stages
                 /\ reqs'[1] # reqs[1]
                       => /\ reqs'[1].pc = "done" /\ reqs'[1].status = 200
                          /\ reqs'[1].sent = reqs[1].sent ]_vars

\* an audio message with the text 'subscribe M' from a sender without a
\* record: speech-to-text failed, text generation and text-to-speech were not
\* started, the apology was the only message, the request ended with 200, and
\* the sender has no record and no subscription
C20_Witness ==
    /\ reqs[1].branch = "voice" /\ reqs[1].pc = "done" /\ reqs[1].status = 200
    /\ reqs[1].msg = W_subscribe \o <<" ", "m">>
    /\ reqs[1].stages = <<"fetch", "stt">>
    /\ reqs[1].sent = << <<"u1", VoiceApology>> >>
    /\ ~Known("u1") /\ ~Subscribed("u1")

\* C21 as stated: in the voice-enabled handler, a text request that began with
\* the welcome of a sender without a record hands over the welcome only, and
\* leaves that sender without subscription and location: the command carried
\* by the first message is not processed.
C21_FirstContactTerminal ==
    \A r \in 1..MaxReqs :
        (/\ reqs[r].branch = "text"
         /\ reqs[r].sent # <<>>
         /\ reqs[r].sent[1][2].kind = "v_welcome")
        => /\ Len(reqs[r].sent) = 1
           /\ ~Subscribed(reqs[r].from) /\ ~HasLocation(reqs[r].from)

\* what the directory holds for one user
View(u) ==
    [known |-> Known(u), language |-> LanguageOf(userPreferences, u),
     subscribed |-> Subscribed(u),
     location |-> IF HasLocation(u) THEN MapGet(userLocations, u) ELSE <<>>,
     log |-> Logs(u)]

\* C22: every step of a request leaves what the directory holds for every
\* user other than the request's sender unchanged, under every interleaving
\* of two senders' requests and an alert sweep; a step of the sweep changes
\* nothing of the directory; a request hands messages to its own sender
\* only, and the replies to status, subscribe and log are composed from the
\* sender's own entries.
C22_UsersIndependent ==
    [][ /\ reqs' = reqs => dir' = dir
        /\ \A r \in 1..MaxReqs :
          reqs'[r] # reqs[r]
          => \A a \in Users \cup {NoSender} :
               reqs'[r].from = a =>
                 LET t == reqs'[r].text
                 IN
                 /\ \A b \in Users \ {a} : View(b)' = View(b)
                 /\ \A i \in 1..Len(reqs'[r].sent) : reqs'[r].sent[i][1] = a
                 /\ (Free(r) /\ reqs'[r].branch = "status")
                       => t = Text("status",
                                   << IF View(a).subscribed THEN View(a).location
                                      ELSE <<"Not subscribed">>,
                                      View(a).language,
                                      IF View(a).subscribed THEN "Yes" ELSE "No" >>)
                 /\ (Free(r) /\ reqs'[r].branch = "subscribe")
                       => t = Text("subscribed", <<View(a)'.location>>)
                 /\ (Free(r) /\ reqs'[r].branch = "log")
                       => /\ View(a)'.log # <<>>
                          /\ t = Text("logged",
                                      <<View(a)'.log[Len(View(a)'.log)].activity>>) ]_vars

\* u1, whose language is Hindi, has its unsubscribe suspended at the
\* translator while the status request of u2, subscribed to p with a logged
\* activity, is suspended at its send and the sweep is running
C22_Witness ==
    /\ reqs[1].from = "u1" /\ reqs[1].branch = "unsubscribe" /\ reqs[1].pc = "translate"
    /\ reqs[2].from = "u2" /\ reqs[2].branch = "status" /\ reqs[2].pc = "send"
    /\ Running(alertJob)
    /\ View("u1").language = "hi" /\ ~View("u1").subscribed
    /\ View("u2") = [known |-> TRUE, language |-> "en", subscribed |-> TRUE,
                     location |-> <<"p">>, log |-> <<[activity |-> <<"a">>]>>]

\* C23 as stated: the notifications of one alert sweep go to pairwise
\* different users, whatever unsubscribe and subscribe messages are handled
\* while the sweep is suspended.
C23_OneAlertPerSweep ==
    \A i, j \in 1..Len(alertJob.sent) :
        i # j => alertJob.sent[i][1] # alertJob.sent[j][1]

\* the handler has answered 200 to an unsubscribe of u that is still in force
UnsubscribeAcknowledged(u) ==
    /\ ~Subscribed(u)
    /\ \E r \in 1..MaxReqs :
          /\ reqs[r].from = u /\ reqs[r].branch = "unsubscribe"
          /\ reqs[r].pc = "done" /\ reqs[r].status = 200

\* C24 as stated: a step of the alert sweep that hands over a notification
\* hands it over for a user who is not unsubscribed with the unsubscribe
\* request already acknowledged.
C24_NoAlertAfterUnsubscribe ==
    [][ Len(alertJob'.sent) > Len(alertJob.sent)
        => ~UnsubscribeAcknowledged(alertJob'.sent[Len(alertJob'.sent)][1]) ]_vars

\* the number of welcomes among the messages a request has handed over
RECURSIVE Welcomes(_)
Welcomes(sent) ==
    IF sent = <<>> THEN 0
    ELSE (IF Original(sent[1][2]) = Welcome THEN 1 ELSE 0) + Welcomes(Tail(sent))

\* C25: under every interleaving of two senders' concurrent requests, a
\* request takes the first-contact branch only for a sender without a record
\* and that same step creates the record; a record is never removed; a welcome
\* is handed over only by that step, once; so no two requests of one sender
\* are ever both first-contact requests.
C25_WelcomeOnce ==
    [][ /\ \A u \in Users : Known(u) => Known(u)'
        /\ \A r \in 1..MaxReqs :
              reqs'[r] # reqs[r]
              => \A u \in Users \cup {NoSender} :
                    reqs'[r].from = u =>
                       IF Free(r) /\ reqs'[r].branch = "first"
                       THEN /\ ~Known(u) /\ Known(u)'
                            /\ Welcomes(reqs'[r].sent) = 1
                       ELSE Welcomes(reqs'[r].sent) =
                               IF Free(r) THEN 0 ELSE Welcomes(reqs[r].sent)
        /\ \A r1, r2 \in 1..MaxReqs :
              (/\ r1 # r2
               /\ reqs'[r1].branch = "first" /\ reqs'[r2].branch = "first")
              => reqs'[r1].from # reqs'[r2].from ]_vars

\* the first message of u1 is suspended at the send of its welcome while a
\* second message of u1, arrived meanwhile, is handled as a subscription
C25_Witness ==
    /\ reqs[1].from = "u1" /\ reqs[1].branch = "first" /\ reqs[1].pc = "send"
    /\ reqs[2].from = "u1" /\ reqs[2].branch = "subscribe" /\ reqs[2].pc = "send"
    /\ Welcomes(reqs[1].sent) = 1 /\ Welcomes(reqs[2].sent) = 0

\* the users for whom the directory holds a flag, a location or log entries
Holders ==
    {u \in Users \cup {NoSender} : Subscribed(u) \/ HasLocation(u) \/ Logs(u) # <<>>}

\* C26: in every reachable state, every user that is subscribed, has a stored
\* location or has a non-empty log has a preference record.
C26_RecordBeforeEntries == \A u \in Holders : Known(u)

\* a user with a record is subscribed, has a location and has a log entry
C26_Witness ==
    /\ Known("u1") /\ Subscribed("u1") /\ HasLocation("u1") /\ Logs("u1") # <<>>
    /\ reqs[1].branch = "log" /\ reqs[1].pc = "done"

\* the branches of status, view log, weather and the help default
ReadOnlyBranches == {"status", "view_log", "weather", "help"}

\* C27: every step of a request of a known user that took the status, view
\* log, weather or help branch, from the arrival of the message to the
\* acknowledgement, leaves the whole directory unchanged; the status reply is
\* composed from the city (or 'Not subscribed'), the language code and the
\* flag as stored when the message arrives; a weather request with a city
\* looks that city up and one without looks up the stored location.
C27_ReadOnlyCommands ==
    [][ reqs'[1].branch \in ReadOnlyBranches
        => /\ dir' = dir
           /\ Known(reqs'[1].from)
           /\ (Free(1) /\ reqs'[1].branch = "status")
                 => reqs'[1].text =
                       Text("status",
                            << IF HasLocation("u1") THEN MapGet(userLocations, "u1")
                               ELSE <<"Not subscribed">>,
                               userPreferences["u1"].language,
                               IF Subscribed("u1") THEN "Yes" ELSE "No" >>)
           /\ (Free(1) /\ reqs'[1].pc = "weather")
                 => \/ reqs'[1].city = <<"p">>
                    \/ /\ HasLocation("u1")
                       /\ reqs'[1].city = MapGet(userLocations, "u1") ]_vars

\* u1, subscribed to m, has asked for the weather of p and been answered; the
\* stored location is still m
C27_Witness ==
    /\ reqs[1].from = "u1" /\ reqs[1].branch = "weather" /\ reqs[1].city = <<"p">>
    /\ reqs[1].pc = "done" /\ reqs[1].status = 200
    /\ Subscribed("u1") /\ MapGet(userLocations, "u1") = <<"m">>

\* an inbound message is handled while the alert sweep is suspended
MessageDuringSweep ==
    /\ Running(alertJob)
    /\ Free(1) /\ reqs'[1] # reqs[1]

\* C28: the handling of a message never moves the alert sweep; a lookup of
\* the sweep starts only at the start of the sweep, after a lookup that led to
\* no notification or after a delay, never while a send is pending; a send
\* starts only from a lookup and a delay only from a send; and when from some point on no inbound message is handled during a
\* running sweep, every running sweep eventually finishes.
C28_SweepFinishes ==
    /\ [][ /\ reqs' # reqs => alertJob'.pc = alertJob.pc
           /\ (reqs' = reqs /\ alertJob'.pc = "lookup")
                 => alertJob.pc \in {"idle", "finished", "lookup", "delay"}
           /\ (reqs' = reqs /\ alertJob'.pc = "send") => alertJob.pc = "lookup"
           /\ (reqs' = reqs /\ alertJob'.pc = "delay") => alertJob.pc = "send" ]_vars
    /\ (<>[][~MessageDuringSweep]_vars)
          => (Running(alertJob) ~> alertJob.pc = "finished")

\* a sweep has finished after notifying both users, u1 a second time after
\* its messages were handled while the sweep ran
C28_Witness ==
    /\ alertJob.pc = "finished"
    /\ Len(alertJob.sent) = 2
    /\ alertJob.sent[1][1] = "u1" /\ alertJob.sent[2][1] = "u2"
    /\ alertJob.looked = {"u1", "u2"}

====
